---- MODULE Spec2Model ----
(***************************************************************************)
(* Model of the file organizer backend.                                    *)
(*                                                                         *)
(* routes/ai_organizer.py: execute_rename (entry checks, apply phase, then *)
(* empty-folder cleanup, reply) with the folder path resolver              *)
(* create_nested_folders / create_folder_if_not_exists; ai_rename_preview  *)
(* (entry checks, enrichment of the selected entries, suggestions,         *)
(* positional id rebinding); extract_file_content; get_ai_suggestions;     *)
(* batch_organize.                                                         *)
(* routes/google_drive.py: report, the tree of the owned entries.          *)
(*                                                                         *)
(* The storage backend is the Drive v3 files resource: get, get_media,     *)
(* list, create, update (name, addParents, removeParents) and delete.      *)
(* Every backend call may raise.                                           *)
(***************************************************************************)
EXTENDS Integers, Sequences, FiniteSets, TLC

VARIABLES
    drive,      \* backend: id -> [name, folder, parents, trashed]
    nextId,     \* next identifier the backend hands out on create
    pc,         \* position of execute_rename: "apply", "cleanup", "done"
    sugs,       \* the suggestions of the batch consumed so far, in order
    results,    \* results list of execute_rename
    touched,    \* touched_folders
    pending,    \* touched folders the cleanup loop has not visited yet
    log,        \* per suggestion: what its apply step did (history)
    deletes,    \* cleanup: one record per delete call, in order (history)
    failures,   \* number of backend calls that have raised so far
    budget,     \* number of backend calls that may raise during the invocation
    pool,       \* the suggestions the request's batch is drawn from
    limit,      \* the longest list of suggestions of this run
    pvPc,       \* position of ai_rename_preview: "start", "done", "error"
    pvSelected, \* selectedFiles of the preview request
    pvEnriched, \* enriched_files
    pvEcho,     \* the list decoded from the completion service's reply
    pvEchoList, \* whether the decoded value is a list
    pvFaults,   \* per selected entry: the call that raised for it (history)
    pvReply,    \* what the completion service did for the request (history)
    pvOut,      \* the list ai_rename_preview returns
    creds,      \* 'credentials' in session
    called,     \* the request has issued a backend or completion-service call
    reply,      \* the reply of the handler: [code |-> 0] while it is running
    boPc,       \* position of batch_organize: "check", "list", "prompt", ...
    boFolder,   \* folderId of the batch_organize request (None: missing)
    boFiles,    \* files: the children batch_organize listed
    smPc,       \* position of extract_file_content: "call", "returned"
    smIn,       \* its input: the file on the backend, mime_type, what raises
    smOut,      \* what it returned and what it left behind
    rpPc,       \* position of report: "graph", "done"
    rpFiles,    \* my_files: the owned entries, as listed
    rpDone,     \* number of entries the loop over file_info has handled
    rpG,        \* the graph G: the label of each node, and the edges
    rpTree,     \* tree_data
    gsPc,       \* position of get_ai_suggestions studied alone: "call", "returned"
    gsIn,       \* a JSON array text and the fenced block that wraps it
    gsOut       \* what get_ai_suggestions returns for the text and for the block

vars == <<drive, nextId, pc, sugs, results, touched, pending, log, deletes,
          failures, budget, pool, limit, pvPc, pvSelected, pvEnriched, pvEcho, pvOut,
          pvEchoList, pvFaults, pvReply,
          creds, called, reply, boPc, boFolder, boFiles, smPc, smIn, smOut,
          rpPc, rpFiles, rpDone, rpG, rpTree, gsPc, gsIn, gsOut>>

execVars == <<drive, nextId, pc, sugs, results, touched, pending, log, deletes,
              failures, budget, pool, limit>>
pvVars == <<pvPc, pvSelected, pvEnriched, pvEcho, pvOut, pvEchoList, pvFaults, pvReply>>
boVars == <<boPc, boFolder, boFiles>>
smVars == <<smPc, smIn, smOut>>
\* the handlers other than execute_rename and ai_rename_preview
rpVars == <<rpPc, rpFiles, rpDone, rpG, rpTree>>
gsVars == <<gsPc, gsIn, gsOut>>
restVars == <<boVars, smVars, rpVars, gsVars>>

----------------------------------------------------------------------------
(* Bounds of the model *)

\* longest batch of suggestions drawn from all candidates
MaxBatch == 2
\* longest batch of suggestions drawn from the folder scenarios
MaxLongBatch == 3
\* backend calls that may raise during one invocation (one more in the runs
\* of the failure scenarios)
MaxFailures == 1
\* longest selection / decoded list of a preview request
MaxPreview == 2

----------------------------------------------------------------------------
(* Values *)

\* Python's None, for identifiers
None == -1
\* the backend's root folder ("My Drive"), parent of entries created without parents
Root == 0
\* an identifier no entry has: files().get raises for it
Ghost == 99
\* a suggestion without the key 'id': suggestion['id'] raises KeyError
NoId == -2

Max(S) == CHOOSE x \in S : \A y \in S : y <= x
Min(S) == CHOOSE x \in S : \A y \in S : x <= y

----------------------------------------------------------------------------
(* Strings are sequences of characters: str.split('/') and str.strip() *)

\* index of the first sep in s, or 0
RECURSIVE FirstIndex(_, _, _)
FirstIndex(s, sep, i) ==
    IF i > Len(s) THEN 0
    ELSE IF s[i] = sep THEN i
    ELSE FirstIndex(s, sep, i + 1)

\* folder_path.split('/'): always at least one piece, empty pieces kept
RECURSIVE Split(_, _)
Split(s, sep) ==
    LET i == FirstIndex(s, sep, 1) IN
    IF i = 0 THEN <<s>>
    ELSE <<SubSeq(s, 1, i - 1)>> \o Split(SubSeq(s, i + 1, Len(s)), sep)

RECURSIVE LStrip(_)
LStrip(s) ==
    IF s # <<>> /\ Head(s) = " " THEN LStrip(Tail(s)) ELSE s

RECURSIVE RStrip(_)
RStrip(s) ==
    IF s # <<>> /\ s[Len(s)] = " " THEN RStrip(SubSeq(s, 1, Len(s) - 1)) ELSE s

\* folder_name.strip()
Strip(s) == LStrip(RStrip(s))

----------------------------------------------------------------------------
(* The storage backend *)

Entry(n, f, ps, t) == [name |-> n, folder |-> f, parents |-> ps, trashed |-> t]

\* files().list(q="name='..' and mimeType=folder and trashed=false [and 'p' in parents]")
FolderQuery(d, name, parent) ==
    {i \in DOMAIN d :
        /\ d[i].name = name
        /\ d[i].folder
        /\ ~d[i].trashed
        /\ (parent # None => parent \in d[i].parents)}

\* variant: the children query also filters out folders
ChildrenFilesOnly(d, fid) ==
    {i \in DOMAIN d : fid \in d[i].parents /\ ~d[i].trashed /\ ~d[i].folder}

\* files().list(q="'folder_id' in parents and trashed=false")
Children(d, fid) == {i \in DOMAIN d : fid \in d[i].parents /\ ~d[i].trashed}

\* every descendant (trashed or not) of fid: files().delete removes them with it
RECURSIVE Descendants(_, _, _)
Descendants(d, S, n) ==
    LET T == S \cup {i \in DOMAIN d : d[i].parents \cap S # {}} IN
    IF n = 0 \/ T = S THEN S ELSE Descendants(d, T, n - 1)

\* files().delete(fileId=fid): the entry and its descendants are gone
BackendDelete(d, fid) ==
    LET gone == Descendants(d, {fid}, Cardinality(DOMAIN d)) IN
    [i \in DOMAIN d \ gone |-> d[i]]

\* files().create(body={name, mimeType=folder[, parents=[p]]}): without parents
\* the backend files the new folder under the root
BackendCreate(d, nid, name, parent) ==
    [i \in DOMAIN d \cup {nid} |->
        IF i = nid
        THEN Entry(name, TRUE, {IF parent = None THEN Root ELSE parent}, FALSE)
        ELSE d[i]]

\* files().update(fileId, body={'name': n}, addParents=add, removeParents=rem).
\* The API does not say which of addParents / removeParents wins for an id
\* named in both: addFirst is the backend's choice.
BackendUpdate(d, fid, n, add, rem, addFirst) ==
    LET ps == IF addFirst THEN (d[fid].parents \cup add) \ rem
                          ELSE (d[fid].parents \ rem) \cup add
    IN [d EXCEPT ![fid].name = n, ![fid].parents = ps]

----------------------------------------------------------------------------
(* Folder path resolver *)

\* the backend may list several matches in any order: items[0] is the one it
\* lists first (pickLast: the backend lists them newest first)
FirstItem(items, pickLast) == IF pickLast THEN Max(items) ELSE Min(items)

\* variant: when the lookup or the create raises, the parent is returned
CreateFolderOrParent(d, nid, name, parent, calls, failSet, pickLast) ==
    LET items == FolderQuery(d, name, parent) IN
    IF calls + 1 \in failSet
    THEN [id |-> parent, drive |-> d, nextId |-> nid, calls |-> calls + 1,
          created |-> {}, failed |-> {"list"}]
    ELSE IF items # {}
    THEN [id |-> FirstItem(items, pickLast), drive |-> d, nextId |-> nid,
          calls |-> calls + 1, created |-> {}, failed |-> {}]
    ELSE IF calls + 2 \in failSet
    THEN [id |-> parent, drive |-> d, nextId |-> nid, calls |-> calls + 2,
          created |-> {}, failed |-> {"create"}]
    ELSE [id |-> nid, drive |-> BackendCreate(d, nid, name, parent),
          nextId |-> nid + 1, calls |-> calls + 2,
          created |-> {<<name, IF parent = None THEN Root ELSE parent, nid>>},
          failed |-> {}]

\* variant: the folder is created without looking for an existing one
CreateFolderAlways(d, nid, name, parent, calls, failSet, pickLast) ==
    IF calls + 1 \in failSet
    THEN [id |-> None, drive |-> d, nextId |-> nid, calls |-> calls + 1,
          created |-> {}, failed |-> {"create"}]
    ELSE [id |-> nid, drive |-> BackendCreate(d, nid, name, parent),
          nextId |-> nid + 1, calls |-> calls + 1,
          created |-> {<<name, IF parent = None THEN Root ELSE parent, nid>>},
          failed |-> {}]

\* create_folder_if_not_exists(service, folder_name, parent_id).
\* calls: backend calls the current suggestion has made so far; failSet: which
\* of the suggestion's calls raise.  Any exception is caught and gives None.
CreateFolderIfNotExists(d, nid, name, parent, calls, failSet, pickLast) ==
    LET items == FolderQuery(d, name, parent) IN
    IF calls + 1 \in failSet
    THEN [id |-> None, drive |-> d, nextId |-> nid, calls |-> calls + 1,
          created |-> {}, failed |-> {"list"}]
    ELSE IF items # {}
    THEN [id |-> FirstItem(items, pickLast), drive |-> d, nextId |-> nid,
          calls |-> calls + 1, created |-> {}, failed |-> {}]
    ELSE IF calls + 2 \in failSet
    THEN [id |-> None, drive |-> d, nextId |-> nid, calls |-> calls + 2,
          created |-> {}, failed |-> {"create"}]
    ELSE [id |-> nid, drive |-> BackendCreate(d, nid, name, parent),
          nextId |-> nid + 1, calls |-> calls + 2,
          created |-> {<<name, IF parent = None THEN Root ELSE parent, nid>>},
          failed |-> {}]

\* the for loop of create_nested_folders over folders[i..]; st carries
\* current_parent (id), the backend and the calls made
RECURSIVE NestedLoop(_, _, _, _, _)
NestedLoop(st, folders, i, failSet, pickLast) ==
    IF i > Len(folders) THEN st
    ELSE LET folder_name == Strip(folders[i]) IN
         IF folder_name = <<>>
         THEN NestedLoop(st, folders, i + 1, failSet, pickLast)
         ELSE LET r == CreateFolderIfNotExists(st.drive, st.nextId, folder_name,
                                               st.id, st.calls, failSet, pickLast)
                  nx == [id |-> r.id, drive |-> r.drive, nextId |-> r.nextId,
                         calls |-> r.calls,
                         created |-> st.created \cup r.created,
                         failed |-> st.failed \cup r.failed]
              IN IF r.id = None THEN nx
                 ELSE NestedLoop(nx, folders, i + 1, failSet, pickLast)

\* create_nested_folders(service, folder_path, parent_id)
CreateNestedFolders(d, nid, folder_path, parent_id, calls, failSet, pickLast) ==
    LET st0 == [id |-> parent_id, drive |-> d, nextId |-> nid, calls |-> calls,
                created |-> {}, failed |-> {}]
    IN IF folder_path = <<>> THEN st0
       ELSE NestedLoop(st0, Split(folder_path, "/"), 1, failSet, pickLast)

----------------------------------------------------------------------------
(* execute_rename *)

\* suggestion.get('id', 'unknown') of a suggestion without an id
Unknown == -3

\* a suggestion of the request body: id (NoId: key absent), newName,
\* newFolder (hasFolder FALSE: key absent, .get gives None)
Sug(i, n, hf, nf) == [id |-> i, newName |-> n, hasFolder |-> hf, newFolder |-> nf]

\* the suggestions a batch is drawn from
Candidates ==
    { Sug(3, <<"n">>, TRUE, <<"a">>),
      Sug(3, <<"n">>, TRUE, <<" ", "a", "/", " ", "/", "b">>),
      Sug(3, <<"n">>, TRUE, <<"c", "/", "b">>),
      Sug(4, <<"m">>, TRUE, <<"a", "/", "b">>),
      Sug(2, <<"n">>, TRUE, <<"a">>),
      Sug(1, <<"n">>, TRUE, <<"a">>),
      Sug(1, <<"n">>, FALSE, <<>>),
      Sug(3, <<"m">>, TRUE, <<"/">>),
      Sug(Ghost, <<"n">>, FALSE, <<>>),
      Sug(NoId, <<"n">>, TRUE, <<"a">>) }

\* batches whose folder resolution and update may both raise
FaultyCandidates ==
    { Sug(4, <<"m">>, TRUE, <<"a", "/", "b">>),
      Sug(3, <<"n">>, TRUE, <<"c">>),
      Sug(1, <<"n">>, FALSE, <<>>) }

\* the backend before the request: folders a (1) and b (2), a file in each
\* (3, 4) and a trashed folder c (5) inside b; bUnder: the parent of b;
\* xParents: the parents of file 3
World(bUnder, xParents) ==
    (0 :> Entry(<<"My Drive">>, TRUE, {}, FALSE))
    @@ (1 :> Entry(<<"a">>, TRUE, {Root}, FALSE))
    @@ (2 :> Entry(<<"b">>, TRUE, {bUnder}, FALSE))
    @@ (3 :> Entry(<<"x">>, FALSE, xParents, FALSE))
    @@ (4 :> Entry(<<"y">>, FALSE, {2}, FALSE))
    @@ (5 :> Entry(<<"c">>, TRUE, {2}, TRUE))

Worlds == { World(Root, {1}), World(1, {1, 2}) }

\* batches that move both files and a folder, and rename a folder
FolderCandidates ==
    { Sug(3, <<"n">>, TRUE, <<"c">>),
      Sug(4, <<"n">>, TRUE, <<"c">>),
      Sug(2, <<"n">>, TRUE, <<"a">>),
      Sug(3, <<"n">>, TRUE, <<"a">>),
      Sug(4, <<"n">>, TRUE, <<"a">>),
      Sug(1, <<"n">>, FALSE, <<>>) }

\* number of segments of the path that are not empty after strip()
RECURSIVE NonEmpty(_)
NonEmpty(folders) ==
    IF folders = <<>> THEN <<>>
    ELSE (IF Strip(Head(folders)) = <<>> THEN <<>> ELSE <<Strip(Head(folders))>>)
         \o NonEmpty(Tail(folders))

\* one element of results
Result(i, st, msg) == [id |-> i, status |-> st, message |-> msg]

\* variant: the except branch records another status word
ErrorResultFailed(i, e) == Result(i, "failed", "Error")

\* the except branch of the loop body (lines 411-416): e names what raised
ErrorResult(i, e) ==
    Result(i, "error",
           CASE e = "KeyError" -> "Error: 'id'"
             [] e = "get" -> "Error: get"
             [] OTHER -> "Error: update")

\* variant: only the items that did not raise are reported
CollectNoErrors(rs, r) == IF r.status = "error" THEN rs ELSE Append(rs, r)

\* results.append(...)
Collect(rs, r) == Append(rs, r)

\* what the apply step of one suggestion did (history, read by the properties):
\* the backend before the step, after folder resolution and after the step
LogEntry(d, mid, after, got, tried, folderId, upd, failed) ==
    [before |-> d, mid |-> mid, after |-> after, got |-> got, tried |-> tried,
     folderId |-> folderId, update |-> upd, failed |-> failed]

NoResolve(d, nid, calls) ==
    [id |-> None, drive |-> d, nextId |-> nid, calls |-> calls, created |-> {},
     failed |-> {}]

\* the outcome of the body of the for loop (lines 358-416) for suggestion s:
\* the new backend, the result appended, the parents added to touched_folders
ApplyOne(d, nid, s, failSet, pickLast, addFirst) ==
    IF s.id = NoId
    THEN \* suggestion['id'] raises KeyError before any backend call
         [drive |-> d, nextId |-> nid, touch |-> {}, nfail |-> 0,
          result |-> ErrorResult(Unknown, "KeyError"),
          log |-> LogEntry(d, d, d, FALSE, FALSE, None, "none", {"KeyError"})]
    ELSE IF 1 \in failSet \/ s.id \notin DOMAIN d
    THEN \* files().get raises
         [drive |-> d, nextId |-> nid, touch |-> {},
          nfail |-> IF 1 \in failSet THEN 1 ELSE 0,
          result |-> ErrorResult(s.id, "get"),
          log |-> LogEntry(d, d, d, FALSE, FALSE, None, "none", {"get"})]
    ELSE
    LET previous_parents == d[s.id].parents
        tried == s.hasFolder /\ s.newFolder # <<>>
        r == IF tried
             THEN CreateNestedFolders(d, nid, s.newFolder, None, 1, failSet, pickLast)
             ELSE NoResolve(d, nid, 1)
        updFails == (r.calls + 1) \in failSet
        nf == Cardinality(r.failed) + (IF updFails THEN 1 ELSE 0)
        moved == BackendUpdate(r.drive, s.id, s.newName, {r.id},
                               previous_parents, addFirst)
        renamed == BackendUpdate(r.drive, s.id, s.newName, {}, {}, addFirst)
    IN
    IF updFails
    THEN [drive |-> r.drive, nextId |-> r.nextId, touch |-> previous_parents,
          nfail |-> nf,
          result |-> ErrorResult(s.id, "update"),
          log |-> LogEntry(d, r.drive, r.drive, TRUE, tried, r.id, "none",
                           r.failed \cup {"update"})]
    ELSE IF tried /\ r.id # None
    THEN [drive |-> moved, nextId |-> r.nextId, touch |-> previous_parents,
          nfail |-> nf,
          result |-> Result(s.id, "success", "Renamed and moved"),
          log |-> LogEntry(d, r.drive, moved, TRUE, tried, r.id, "move", r.failed)]
    ELSE IF tried
    THEN [drive |-> renamed, nextId |-> r.nextId, touch |-> previous_parents,
          nfail |-> nf,
          result |-> Result(s.id, "partial", "Renamed but folder creation failed"),
          log |-> LogEntry(d, r.drive, renamed, TRUE, tried, r.id, "rename",
                           r.failed)]
    ELSE [drive |-> renamed, nextId |-> r.nextId, touch |-> previous_parents,
          nfail |-> nf,
          result |-> Result(s.id, "success", "Renamed"),
          log |-> LogEntry(d, r.drive, renamed, TRUE, tried, r.id, "rename",
                           r.failed)]

\* the sets of calls of one suggestion that may raise, within the budget
FailSets(s, left) ==
    {F \in SUBSET (1 .. (2 + 2 * Len(NonEmpty(Split(s.newFolder, "/"))))) :
        Cardinality(F) <= left}

\* one iteration of "for suggestion in suggestions"
ApplySuggestion ==
    /\ pc = "apply"
    /\ Len(sugs) < limit
    /\ \E s \in pool, pickLast \in BOOLEAN, addFirst \in BOOLEAN :
       \E failSet \in FailSets(s, budget - failures) :
          LET o == ApplyOne(drive, nextId, s, failSet, pickLast, addFirst) IN
          /\ drive' = o.drive
          /\ nextId' = o.nextId
          /\ sugs' = Append(sugs, s)
          /\ results' = Collect(results, o.result)
          /\ touched' = touched \cup o.touch
          /\ log' = Append(log, o.log)
          /\ failures' = failures + o.nfail
          /\ called' = (called \/ "KeyError" \notin o.log.failed)
    /\ UNCHANGED <<pc, pending, deletes, budget, pool, limit, pvVars, restVars, creds, reply>>

\* the for loop is exhausted (the batch is not empty: line 348)
EndApply ==
    /\ pc = "apply"
    /\ Len(sugs) >= 1
    /\ pc' = "cleanup"
    /\ pending' = touched
    /\ UNCHANGED <<drive, nextId, sugs, results, touched, log, deletes, failures,
                   budget, pool, limit, pvVars, restVars, creds, called, reply>>

\* one iteration of "for folder_id in touched_folders" (a set: any order),
\* taken while execute_rename is at one of the positions `at`.
\* listFails / deleteFails: the list or the delete call raises; deleting the
\* root or a folder that is already gone raises too.  Exceptions are caught.
CleanupStep(at, from) ==
    /\ pc \in at
    /\ \E folder_id \in from, listFails \in BOOLEAN, deleteFails \in BOOLEAN :
          LET children == Children(drive, folder_id)
              refused == folder_id = Root \/ folder_id \notin DOMAIN drive
              nf == IF listFails THEN 1
                    ELSE IF children = {} /\ deleteFails /\ ~refused THEN 1 ELSE 0
              calls_delete == ~listFails /\ children = {}
              ok == calls_delete /\ ~deleteFails /\ ~refused
          IN
          /\ failures + nf <= budget
          /\ pending' = pending \ {folder_id}
          /\ failures' = failures + nf
          /\ drive' = IF ok THEN BackendDelete(drive, folder_id) ELSE drive
          /\ deletes' = IF calls_delete
                        THEN Append(deletes,
                                 [id |-> folder_id, ok |-> ok, before |-> drive,
                                  after |-> drive', applied |-> Len(results),
                                  at |-> pc])
                        ELSE deletes
    /\ called' = TRUE
    /\ UNCHANGED <<nextId, pc, sugs, results, touched, log, budget, pool, limit,
                   pvVars, restVars, creds, reply>>

\* variant: folders are cleaned up while suggestions are still being applied
CleanupInterleaved == CleanupStep({"apply", "cleanup"}, touched)

\* the cleanup loop (lines 419-431) runs after the apply loop, over touched_folders
CleanupFolder == CleanupStep({"cleanup"}, pending)

\* lines 420-429 for one folder when no call raises: the folder is listed and,
\* when it has no non-trashed children, deleted; the delete of the root or of
\* a folder that is gone raises, which is caught (lines 430-431)
CleanupOne(d, folder_id) ==
    IF /\ Children(d, folder_id) = {}
       /\ folder_id # Root
       /\ folder_id \in DOMAIN d
    THEN BackendDelete(d, folder_id)
    ELSE d

\* the cleanup loop (lines 419-431) over touched_folders iterated in the given
\* order, when no call raises: the backend it leaves
RECURSIVE CleanupRun(_, _)
CleanupRun(d, order) ==
    IF order = <<>> THEN d
    ELSE CleanupRun(CleanupOne(d, Head(order)), Tail(order))

\* the orders in which a set may be iterated
Orders(S) ==
    {o \in [1 .. Cardinality(S) -> S] :
        \A i, j \in 1 .. Cardinality(S) : o[i] = o[j] => i = j}

\* an error reply: jsonify({"error": ...}), code
ErrorReply(code, error) == [code |-> code, error |-> error]

\* the number of results with status st: len([r for r in results if ...])
CountStatus(rs, st) == Len(SelectSeq(rs, LAMBDA r : r.status = st))

\* variant: every result that is not a success counts as failed
ResponseFailedIsRest(suggestions, rs) ==
    [code |-> 200, success |-> TRUE, results |-> rs, total |-> Len(suggestions),
     successful |-> CountStatus(rs, "success"),
     failed |-> Len(rs) - CountStatus(rs, "success")]

\* the body of the reply of execute_rename (lines 433-439)
Response(suggestions, rs) ==
    [code |-> 200, success |-> TRUE, results |-> rs, total |-> Len(suggestions),
     successful |-> CountStatus(rs, "success"),
     failed |-> CountStatus(rs, "error")]

\* variant: a call that raised during the cleanup loop is reported as a failure
\* of the request
RespondCleanupEscalated ==
    /\ pc = "cleanup"
    /\ pending = {}
    /\ pc' = "done"
    /\ reply' = IF failures > Cardinality({i \in 1 .. Len(log) :
                                  log[i].failed \ {"KeyError"} # {}})
                THEN [Response(sugs, results) EXCEPT !.success = FALSE]
                ELSE Response(sugs, results)
    /\ UNCHANGED <<drive, nextId, sugs, results, touched, pending, log, deletes,
                   failures, budget, pool, limit, pvVars, restVars, creds, called>>

\* the cleanup loop is exhausted: the response is built (lines 433-439)
Respond ==
    /\ pc = "cleanup"
    /\ pending = {}
    /\ pc' = "done"
    /\ reply' = Response(sugs, results)
    /\ UNCHANGED <<drive, nextId, sugs, results, touched, pending, log, deletes,
                   failures, budget, pool, limit, pvVars, restVars, creds, called>>

\* execute_rename is not running
ExecIdle ==
    /\ drive = World(Root, {1})
    /\ nextId = 6
    /\ pc = "idle"
    /\ sugs = <<>>
    /\ results = <<>>
    /\ touched = {}
    /\ pending = {}
    /\ log = <<>>
    /\ deletes = <<>>
    /\ pool = {}

\* batch_organize is not running
BatchIdle ==
    /\ boPc = "idle"
    /\ boFolder = None
    /\ boFiles = {}

\* extract_file_content is not under study on its own
SamplerIdle ==
    /\ smPc = "idle"
    /\ smIn = <<>>
    /\ smOut = <<>>

\* report is not running
ReportIdle ==
    /\ rpPc = "idle"
    /\ rpFiles = <<>>
    /\ rpDone = 0
    /\ rpG = <<>>
    /\ rpTree = <<>>

\* get_ai_suggestions is not under study on its own
ClientIdle ==
    /\ gsPc = "idle"
    /\ gsIn = <<>>
    /\ gsOut = <<>>

\* the handlers other than execute_rename and ai_rename_preview are not running
RestIdle == BatchIdle /\ SamplerIdle /\ ReportIdle /\ ClientIdle

\* ai_rename_preview is not running
PreviewIdle ==
    /\ pvPc = "idle"
    /\ pvSelected = <<>>
    /\ pvEnriched = <<>>
    /\ pvEcho = <<>>
    /\ pvOut = <<>>
    /\ pvEchoList = TRUE
    /\ pvFaults = <<>>
    /\ pvReply = [kind |-> "idle"]

\* execute_rename has passed its checks (lines 342-352) and starts its loop
ExecStart ==
    /\ creds = TRUE
    /\ called = FALSE
    /\ reply = [code |-> 0]
    /\ nextId = 6
    /\ pc = "apply"
    /\ sugs = <<>>
    /\ results = <<>>
    /\ touched = {}
    /\ pending = {}
    /\ log = <<>>
    /\ deletes = <<>>

Init ==
    /\ drive \in Worlds
    /\ ExecStart
    /\ failures = 0
    /\ budget = MaxFailures
    /\ pool = Candidates
    /\ limit = MaxBatch
    /\ PreviewIdle
    /\ RestIdle

Next == ApplySuggestion \/ EndApply \/ CleanupFolder \/ Respond

Spec == Init /\ [][Next]_vars

\* longer batches of the folder scenarios, no backend call raises
InitFolders ==
    /\ drive = World(Root, {1})
    /\ ExecStart
    /\ failures = 0
    /\ budget = 0
    /\ pool = FolderCandidates
    /\ limit = MaxLongBatch
    /\ PreviewIdle
    /\ RestIdle

SpecFolders == InitFolders /\ [][Next]_vars

\* batches of the failure scenarios: several calls of one request may raise
InitFaulty ==
    /\ drive \in Worlds
    /\ ExecStart
    /\ failures = 0
    /\ budget = MaxFailures + 1
    /\ pool = FaultyCandidates
    /\ limit = MaxBatch
    /\ PreviewIdle
    /\ RestIdle

SpecFaulty == InitFaulty /\ [][Next]_vars

\* suggestions whose paths name folders that exist below other folders
NestedCandidates ==
    { Sug(3, <<"n">>, TRUE, <<"a", "/", "b">>),
      Sug(4, <<"m">>, TRUE, <<"b">>),
      Sug(3, <<"n">>, TRUE, <<"b", "/", "a">>) }

\* batches of the nested-folder scenarios, no backend call raises
InitNested ==
    /\ drive \in Worlds
    /\ ExecStart
    /\ failures = 0
    /\ budget = 0
    /\ pool = NestedCandidates
    /\ limit = MaxBatch
    /\ PreviewIdle
    /\ RestIdle

SpecNested == InitNested /\ [][Next]_vars

----------------------------------------------------------------------------
(* extract_file_content *)

\* len(words) >= 200, words[:200]
WordLimit == 200
\* int(metadata.get('size', 0)) > 10_000_000
SizeLimit == 10000000

Pdf == "application/pdf"
Docx == "application/vnd.openxmlformats-officedocument.wordprocessingml.document"
FolderMime == "application/vnd.google-apps.folder"

\* the characters str.split() and str.strip() take for whitespace
Whitespace == {" ", "\n"}

\* text.strip()
RECURSIVE TextStrip(_)
TextStrip(text) ==
    IF text # <<>> /\ Head(text) \in Whitespace THEN TextStrip(Tail(text))
    ELSE IF text # <<>> /\ text[Len(text)] \in Whitespace
    THEN TextStrip(SubSeq(text, 1, Len(text) - 1))
    ELSE text

\* text.split(): the maximal runs of characters that are not whitespace, in
\* order (computed by halving the text at a whitespace character)
RECURSIVE TextSplit(_)
TextSplit(text) ==
    LET ws == {i \in 1 .. Len(text) : text[i] \in Whitespace}
        low == {i \in ws : 2 * i <= Len(text) + 1}
        cut == IF low # {} THEN Max(low) ELSE Min(ws)
    IN
    IF ws = {} THEN (IF text = <<>> THEN <<>> ELSE <<text>>)
    ELSE TextSplit(SubSeq(text, 1, cut - 1))
         \o TextSplit(SubSeq(text, cut + 1, Len(text)))

\* " ".join(words) (computed by halving the list)
RECURSIVE Join(_)
Join(words) ==
    LET half == Len(words) \div 2 IN
    IF words = <<>> THEN <<>>
    ELSE IF Len(words) = 1 THEN words[1]
    ELSE Join(SubSeq(words, 1, half)) \o <<" ">>
         \o Join(SubSeq(words, half + 1, Len(words)))

\* the for loop over the pages / paragraphs: words.extend(text.split()), and
\* break once len(words) >= 200
RECURSIVE ReadWords(_, _, _)
ReadWords(units, i, words) ==
    IF i > Len(units) THEN words
    ELSE LET w == words \o TextSplit(units[i]) IN
         IF Len(w) >= WordLimit THEN w ELSE ReadWords(units, i + 1, w)

\* variant: every word read is kept
TakeAllWords(words) == words

\* words[:200]
TakeWords(words) == SubSeq(words, 1, IF Len(words) < WordLimit THEN Len(words) ELSE WordLimit)

\* what extract_file_content returns and leaves behind: the content, the
\* staged files still on disk, whether a staged file was created and whether
\* the bytes were requested from the backend
Sampled(content, temp, staged, fetched) ==
    [content |-> content, temp |-> temp, staged |-> staged, fetched |-> fetched]

\* the pdf and docx branches (lines 37-50, 52-63): rename the staged file,
\* open it, read the words, remove it
ParseBranch(file, fault, path) ==
    IF fault = "rename" THEN Sampled(<<>>, {"bin"}, TRUE, TRUE)
    ELSE IF fault \in {"parse", "remove"} \/ ~file.wellFormed
    THEN Sampled(<<>>, {path}, TRUE, TRUE)
    ELSE Sampled(TextStrip(Join(TakeWords(ReadWords(file.units, 1, <<>>)))), {},
                 TRUE, TRUE)

\* extract_file_content(service, file_id, mime_type) for the backend's `file`
\* ([known, size, media, wellFormed, units]); `fault` names the call that
\* raises, if any.  Every exception ends in the except branch (lines 71-73),
\* which returns "" and removes nothing.
ExtractFileContent(file, mime_type, fault) ==
    IF fault = "meta" \/ ~file.known
    THEN Sampled(<<>>, {}, FALSE, FALSE)
    ELSE IF file.size > SizeLimit
    THEN Sampled(<<>>, {}, FALSE, FALSE)
    ELSE IF fault = "download" \/ ~file.media
    THEN Sampled(<<>>, {"bin"}, TRUE, TRUE)
    ELSE IF mime_type = Pdf THEN ParseBranch(file, fault, "pdf")
    ELSE IF mime_type = Docx THEN ParseBranch(file, fault, "docx")
    ELSE IF fault = "remove" THEN Sampled(<<>>, {"bin"}, TRUE, TRUE)
    ELSE Sampled(<<>>, {}, TRUE, TRUE)

\* the letters the words of the files are written with
Alphabet == <<"a", "b", "c", "d", "e", "f", "g", "h",
              "i", "j", "k", "l", "m", "n", "o", "p">>

\* the k-th word of a file: two letters
WordOf(k) == <<Alphabet[(k \div 16) + 1], Alphabet[(k % 16) + 1]>>

\* the text of a page that holds the n words first, first + 1, ...: each word
\* after a blank, and a newline at the end
PageText(first, n) ==
    [i \in 1 .. (3 * n + 1) |->
        IF i = 3 * n + 1 THEN "\n"
        ELSE IF i % 3 = 1 THEN " "
        ELSE WordOf(first + ((i - 1) \div 3))[(i - 1) % 3]]

\* the pages of a file whose pages hold counts[1], counts[2], ... words
RECURSIVE PagesFrom(_, _)
PagesFrom(counts, first) ==
    IF counts = <<>> THEN <<>>
    ELSE <<PageText(first, Head(counts))>> \o PagesFrom(Tail(counts), first + Head(counts))

\* the words per page (or paragraph) of the files sampled
PageCounts ==
    { <<>>, <<0>>, <<3>>, <<199>>, <<200>>, <<201>>, <<100, 100>>,
      <<150, 0, 60>>, <<120, 79, 1, 40>>, <<250>>, <<200, 5>> }

\* a file on the backend
File(size, media, wellFormed, units) ==
    [known |-> TRUE, size |-> size, media |-> media, wellFormed |-> wellFormed,
     units |-> units]

\* files().get raises for an id the backend does not know
NoFile == [known |-> FALSE]

\* the inputs of the sampler: a file with its reported size (0: none reported),
\* the format tag and the call that raises
SamplerInputs ==
    { [file |-> File(size, TRUE, TRUE, PagesFrom(counts, 1)), counts |-> counts,
       mime_type |-> mime, fault |-> fault] :
        size \in {0, SizeLimit, SizeLimit + 1},
        counts \in PageCounts,
        mime \in {Pdf, Docx, "image/png", "text/plain"},
        fault \in {"none", "meta", "download", "rename", "parse", "remove"} }

\* one call of extract_file_content
Sample ==
    /\ smPc = "call"
    /\ smOut' = ExtractFileContent(smIn.file, smIn.mime_type, smIn.fault)
    /\ smPc' = "returned"
    /\ UNCHANGED <<execVars, pvVars, boVars, rpVars, gsVars, smIn, creds, called, reply>>

InitSampler ==
    /\ ExecIdle
    /\ PreviewIdle
    /\ BatchIdle
    /\ ReportIdle
    /\ ClientIdle
    /\ creds = TRUE
    /\ called = FALSE
    /\ reply = [code |-> 0]
    /\ failures = 0
    /\ budget = 0
    /\ limit = 0
    /\ smPc = "call"
    /\ smIn \in SamplerInputs
    /\ smOut = <<>>

NextSampler == Sample

SpecSampler == InitSampler /\ [][NextSampler]_vars

----------------------------------------------------------------------------
(* ai_rename_preview *)

\* sequences over S of length lo .. hi
SeqsOf(S, lo, hi) == UNION {[1 .. n -> S] : n \in lo .. hi}

\* the entries of selectedFiles: id and the type the client states
Selectable == [id : {1, 3, Ghost}, type : {"file", "folder"}]

\* variant: the last selected entry is never rebound
RebindButLast(suggestions, enriched) ==
    [i \in 1 .. Len(suggestions) |->
        IF i < Len(enriched)
        THEN [suggestions[i] EXCEPT !.id = enriched[i].id]
        ELSE suggestions[i]]

\* lines 298-300: for i, suggestion in enumerate(suggestions):
\*                    if i < len(enriched_files): suggestion['id'] = ...
Rebind(suggestions, enriched) ==
    [i \in 1 .. Len(suggestions) |->
        IF i - 1 < Len(enriched)
        THEN [suggestions[i] EXCEPT !.id = enriched[i].id]
        ELSE suggestions[i]]

\* the backend's file behind an entry of d: a folder reports no size and has
\* no bytes to download; the files hold two words on one page
FileOf(d, id) ==
    IF id \notin DOMAIN d THEN NoFile
    ELSE IF d[id].folder THEN File(0, FALSE, FALSE, <<>>)
    ELSE File(5, TRUE, TRUE, PagesFrom(<<2>>, 1))

\* files().get(fileId=id, fields="mimeType") for an entry of d
MimeType(d, id) ==
    IF d[id].folder THEN FolderMime ELSE IF id = 3 THEN Pdf ELSE Docx

\* what may raise for one selected entry: the mimeType lookup of line 286
\* ("mime") or a call inside extract_file_content
EntryFaults(f) ==
    IF f.type = "file" THEN {"none", "mime", "meta", "download", "parse"}
    ELSE {"none", "mime"}

\* the first selected entry whose mimeType lookup raises (the call itself, or
\* an id the backend does not know); 0 if there is none
AbortAt(d, selected, faults) ==
    LET bad == {i \in 1 .. Len(selected) :
                   faults[i] = "mime" \/ selected[i].id \notin DOMAIN d}
    IN IF bad = {} THEN 0 ELSE Min(bad)

\* the calls that raise during one run of the loop: at most `left` of them,
\* none after the entry that ends the loop
FaultVectors(d, selected, left) ==
    {faults \in [1 .. Len(selected) -> {"none", "mime", "meta", "download", "parse"}] :
        /\ \A i \in 1 .. Len(selected) :
              /\ faults[i] \in EntryFaults(selected[i])
              /\ (AbortAt(d, selected, faults) \in 1 .. (i - 1)) => faults[i] = "none"
              /\ selected[i].id \notin DOMAIN d => faults[i] = "none"
        /\ Cardinality({i \in 1 .. Len(selected) : faults[i] # "none"}) <= left}

\* enriched_files after the loop of lines 283-293 has run to its end
Enriched(d, selected, faults) ==
    [i \in 1 .. Len(selected) |->
        [id |-> selected[i].id, type |-> selected[i].type,
         content |-> IF selected[i].type = "file"
                     THEN ExtractFileContent(FileOf(d, selected[i].id),
                                             MimeType(d, selected[i].id),
                                             faults[i]).content
                     ELSE <<>>]]

\* lines 283-293: for every selected entry the mimeType is looked up, then a
\* file is sampled.  The lookup is not guarded: if it raises, the outer except
\* (lines 303-305) ends the handler with a 500.  What raises inside
\* extract_file_content is caught there.
PreviewEnrich ==
    /\ pvPc = "start"
    /\ called' = TRUE
    /\ \E faults \in FaultVectors(drive, pvSelected, budget - failures) :
          /\ pvFaults' = faults
          /\ failures' = failures
                          + Cardinality({i \in 1 .. Len(faults) : faults[i] # "none"})
          /\ IF AbortAt(drive, pvSelected, faults) # 0
             THEN /\ pvPc' = "error"
                  /\ reply' = ErrorReply(500, "get")
                  /\ UNCHANGED pvEnriched
             ELSE /\ pvPc' = "enriched"
                  /\ pvEnriched' = Enriched(drive, pvSelected, faults)
                  /\ UNCHANGED reply
    /\ UNCHANGED <<drive, nextId, pc, sugs, results, touched, pending, log, deletes,
                   budget, pool, limit, restVars, pvSelected, pvEcho, pvOut,
                   pvEchoList, pvReply, creds>>

----------------------------------------------------------------------------
(* get_ai_suggestions *)

\* text.startswith(prefix)
StartsWith(text, prefix) ==
    Len(text) >= Len(prefix) /\ SubSeq(text, 1, Len(prefix)) = prefix

\* text[k:-3]
Slice(text, k) == SubSeq(text, k + 1, Len(text) - 3)

\* stands for the backquote character of the fence
Tick == "'"
Fence == <<Tick, Tick, Tick>>
FenceJson == Fence \o <<"j", "s", "o", "n">>

\* In a reply text the letters a, b, c each stand for the text of one JSON
\* object {"id": ..., "newName": ...} and 1 for a number; the brackets, the
\* commas, the whitespace and the fence are the characters themselves.
ObjectOf(ch) ==
    CASE ch = "a" -> [id |-> 3, newName |-> <<"n">>]
      [] ch = "b" -> [id |-> 7, newName |-> <<"n">>]
      [] ch = "c" -> [id |-> NoId, newName |-> <<"n">>]
      [] OTHER -> [num |-> 1]

\* the characters that stand for a JSON value
Scalars == {"a", "b", "c", "1"}

\* the decoded value: a list with its items, or a value that is no list
Decoded(ok, list, items) == [ok |-> ok, list |-> list, items |-> items]

\* json.loads(text): whitespace around the tokens is skipped, the items of a
\* list are separated by single commas; ok is FALSE for JSONDecodeError
JsonLoads(text) ==
    LET t == TextStrip(text)
        inner == TextStrip(SubSeq(t, 2, Len(t) - 1))
        parts == Split(inner, ",")
    IN
    IF t = <<>> THEN Decoded(FALSE, FALSE, <<>>)
    ELSE IF Len(t) = 1 /\ t[1] \in Scalars THEN Decoded(TRUE, FALSE, <<>>)
    ELSE IF Len(t) < 2 \/ t[1] # "[" \/ t[Len(t)] # "]"
    THEN Decoded(FALSE, FALSE, <<>>)
    ELSE IF inner = <<>> THEN Decoded(TRUE, TRUE, <<>>)
    ELSE IF \A i \in 1 .. Len(parts) :
               Len(TextStrip(parts[i])) = 1 /\ TextStrip(parts[i])[1] \in Scalars
    THEN Decoded(TRUE, TRUE,
                 [i \in 1 .. Len(parts) |-> ObjectOf(TextStrip(parts[i])[1])])
    ELSE Decoded(FALSE, FALSE, <<>>)

\* variant: a reply that cannot be decoded is handed on as a value that is no
\* list
GetAiSuggestionsRaw(outcome) ==
    IF outcome.kind # "text" THEN Decoded(TRUE, FALSE, <<>>)
    ELSE JsonLoads(outcome.text)

\* get_ai_suggestions(prompt), given what the completion service does: the
\* call raises ("raise"), the message has no content ("none": None.strip()
\* raises AttributeError), or it carries a text.  Both except branches return
\* [] (lines 213-219).
GetAiSuggestions(outcome) ==
    IF outcome.kind = "raise" THEN Decoded(TRUE, TRUE, <<>>)
    ELSE IF outcome.kind = "none" THEN Decoded(TRUE, TRUE, <<>>)
    ELSE LET content == TextStrip(outcome.text)
             body == IF StartsWith(content, FenceJson) THEN Slice(content, 7)
                     ELSE IF StartsWith(content, Fence) THEN Slice(content, 3)
                     ELSE content
             r == JsonLoads(body)
         IN IF r.ok THEN r ELSE Decoded(TRUE, TRUE, <<>>)

\* the text of the JSON list of the objects named by letters: [a, b]
RECURSIVE ListItems(_)
ListItems(letters) ==
    IF letters = <<>> THEN <<>>
    ELSE IF Len(letters) = 1 THEN letters
    ELSE <<Head(letters), ",", " ">> \o ListItems(Tail(letters))

Render(letters) == <<"[">> \o ListItems(letters) \o <<"]">>

\* a reply of the completion service with a text; json tells what the text
\* holds: a list of the objects named by letters ("list"), a value that is no
\* list ("scalar"), or nothing json.loads accepts after the fence is cut off
\* ("invalid")
TextReply(text, json, letters) ==
    [kind |-> "text", text |-> text, json |-> json, letters |-> letters]

\* the replies of the completion service with lists of at most n suggestions
Replies(n) ==
    { [kind |-> "raise"], [kind |-> "none"] }
    \cup { TextReply(Render(l), "list", l) : l \in SeqsOf({"a", "b", "c"}, 0, n) }
    \cup { TextReply(FenceJson \o <<"\n">> \o Render(l) \o <<"\n">> \o Fence, "list", l) :
              l \in SeqsOf({"a", "b"}, 0, 1) }
    \cup { TextReply(Fence \o Render(l) \o Fence \o <<"\n">>, "list", l) :
              l \in SeqsOf({"a", "b"}, 0, 1) }
    \cup { TextReply(<<" ", "[", " ", "a", " ", ",", "b", "\n", "]", "\n">>, "list",
                     <<"a", "b">>),
           TextReply(<<"[", "1", "]">>, "list", <<"1">>),
           TextReply(<<"a">>, "scalar", <<>>),
           TextReply(<<"1">>, "scalar", <<>>),
           TextReply(<<>>, "invalid", <<>>),
           TextReply(<<"[", "a">>, "invalid", <<>>),
           TextReply(<<"[", "a", ",", "]">>, "invalid", <<>>),
           TextReply(<<"s", "o", "r", "r", "y">>, "invalid", <<>>),
           TextReply(FenceJson \o Render(<<"a">>), "invalid", <<>>),
           TextReply(Fence \o <<"[", "]">>, "invalid", <<>>) }

\* lines 295-296: the prompt is built and get_ai_suggestions is called
PreviewSuggest ==
    /\ pvPc = "enriched"
    /\ called' = TRUE
    /\ \E outcome \in Replies(limit) :
          LET r == GetAiSuggestions(outcome) IN
          /\ pvReply' = outcome
          /\ pvEcho' = r.items
          /\ pvEchoList' = r.list
    /\ pvPc' = "suggested"
    /\ UNCHANGED <<execVars, restVars, pvSelected, pvEnriched, pvOut, pvFaults,
                   creds, reply>>

\* lines 298-302: rebind the ids by position and return the list.  Iterating a
\* decoded value that is no list, or assigning to an item that is no object,
\* raises TypeError, which the outer except reports (lines 303-305).
PreviewRespond ==
    /\ pvPc = "suggested"
    /\ IF \/ ~pvEchoList
          \/ \E i \in 1 .. Len(pvEcho) :
                i <= Len(pvEnriched) /\ "id" \notin DOMAIN pvEcho[i]
       THEN /\ pvPc' = "error"
            /\ reply' = ErrorReply(500, "TypeError")
            /\ UNCHANGED pvOut
       ELSE /\ pvPc' = "done"
            /\ pvOut' = Rebind(pvEcho, pvEnriched)
            /\ reply' = [code |-> 200, body |-> pvOut']
    /\ UNCHANGED <<execVars, restVars, pvSelected, pvEnriched, pvEcho, pvEchoList,
                   pvFaults, pvReply, creds, called>>

\* ai_rename_preview has passed its checks (lines 271-281)
PreviewStart ==
    /\ ExecIdle
    /\ RestIdle
    /\ failures = 0
    /\ creds = TRUE
    /\ called = FALSE
    /\ reply = [code |-> 0]
    /\ pvPc = "start"
    /\ pvSelected \in SeqsOf(Selectable, 1, MaxPreview)
    /\ pvEnriched = <<>>
    /\ pvEcho = <<>>
    /\ pvOut = <<>>
    /\ pvEchoList = TRUE
    /\ pvFaults = <<>>
    /\ pvReply = [kind |-> "idle"]

\* previews of all replies, no backend call raises
InitPreview ==
    /\ PreviewStart
    /\ budget = 0
    /\ limit = MaxPreview + 1

NextPreview == PreviewEnrich \/ PreviewSuggest \/ PreviewRespond

SpecPreview == InitPreview /\ [][NextPreview]_vars

\* previews of the failure scenarios: backend calls of the request may raise
InitPreviewFaulty ==
    /\ PreviewStart
    /\ budget = MaxFailures
    /\ limit = 1

SpecPreviewFaulty == InitPreviewFaulty /\ [][NextPreview]_vars

----------------------------------------------------------------------------
(* get_ai_suggestions on fenced replies *)

\* the language tags of an opening fence: none, json, and tags other than the
\* one the code names on line 205
Tags == { <<>>, <<"j", "s", "o", "n">>, <<"J", "S", "O", "N">>, <<"p", "y">> }

\* the texts of JSON arrays: lists of at most two values, and one with
\* whitespace around its tokens
ArrayTexts ==
    { Render(l) : l \in SeqsOf({"a", "b", "1"}, 0, 2) }
    \cup { <<"[", " ", "a", ",", "\n", "b", " ", "]">> }

\* the text wrapped in a fenced code block: the opening fence with its tag, the
\* text on the same or on the next line, and the closing fence when the reply
\* has one
Fenced(text, tag, newline, closing) ==
    LET nl == IF newline THEN <<"\n">> ELSE <<>> IN
    Fence \o tag \o nl \o text \o (IF closing THEN nl \o Fence ELSE <<>>)

\* a JSON array text and how the completion service wraps it
ClientInputs ==
    [text : ArrayTexts, tag : Tags, newline : BOOLEAN, closing : BOOLEAN]

\* get_ai_suggestions is called with a reply that is the bare text, and with a
\* reply that is the fenced block
Suggest ==
    /\ gsPc = "call"
    /\ gsOut' = [bare |-> GetAiSuggestions([kind |-> "text", text |-> gsIn.text]),
                 fenced |-> GetAiSuggestions(
                               [kind |-> "text",
                                text |-> Fenced(gsIn.text, gsIn.tag, gsIn.newline,
                                                gsIn.closing)])]
    /\ gsPc' = "returned"
    /\ UNCHANGED <<execVars, pvVars, boVars, smVars, rpVars, gsIn, creds, called, reply>>

InitClient ==
    /\ ExecIdle
    /\ PreviewIdle
    /\ BatchIdle
    /\ SamplerIdle
    /\ ReportIdle
    /\ creds = TRUE
    /\ called = FALSE
    /\ reply = [code |-> 0]
    /\ failures = 0
    /\ budget = 0
    /\ limit = 0
    /\ gsPc = "call"
    /\ gsIn \in ClientInputs
    /\ gsOut = <<>>

NextClient == Suggest

SpecClient == InitClient /\ [][NextClient]_vars

----------------------------------------------------------------------------
(* The checks at the entry of the handlers, and batch_organize *)

\* execute_rename, lines 342-352: credentials, then the suggestions list
\* (limit = 0: the request carries no or an empty list)
ExecCheck ==
    /\ pc = "check"
    /\ IF ~creds
       THEN pc' = "rejected" /\ reply' = ErrorReply(401, "Not authorized")
       ELSE IF limit = 0
       THEN pc' = "rejected" /\ reply' = ErrorReply(400, "No suggestions provided")
       ELSE pc' = "apply" /\ UNCHANGED reply
    /\ UNCHANGED <<drive, nextId, sugs, results, touched, pending, log, deletes,
                   failures, budget, pool, limit, pvVars, restVars, creds, called>>

\* variant: the selection is validated only after the first backend call
PreviewCheckLate ==
    /\ pvPc = "check"
    /\ IF ~creds
       THEN pvPc' = "rejected" /\ reply' = ErrorReply(401, "Not authorized")
            /\ UNCHANGED called
       ELSE IF pvSelected = <<>>
       THEN pvPc' = "rejected" /\ reply' = ErrorReply(400, "No files selected")
            /\ called' = TRUE
       ELSE pvPc' = "start" /\ UNCHANGED <<reply, called>>
    /\ UNCHANGED <<execVars, restVars, pvSelected, pvEnriched, pvEcho, pvOut,
                   pvEchoList, pvFaults, pvReply, creds>>

\* ai_rename_preview, lines 271-281: credentials, then selectedFiles
PreviewCheck ==
    /\ pvPc = "check"
    /\ IF ~creds
       THEN pvPc' = "rejected" /\ reply' = ErrorReply(401, "Not authorized")
       ELSE IF pvSelected = <<>>
       THEN pvPc' = "rejected" /\ reply' = ErrorReply(400, "No files selected")
       ELSE pvPc' = "start" /\ UNCHANGED reply
    /\ UNCHANGED <<execVars, restVars, pvSelected, pvEnriched, pvEcho, pvOut,
                   pvEchoList, pvFaults, pvReply, creds, called>>

\* batch_organize, lines 450-460: credentials, then folderId
BatchCheck ==
    /\ boPc = "check"
    /\ IF ~creds
       THEN boPc' = "rejected" /\ reply' = ErrorReply(401, "Not authorized")
       ELSE IF boFolder = None
       THEN boPc' = "rejected" /\ reply' = ErrorReply(400, "No folder ID provided")
       ELSE boPc' = "list" /\ UNCHANGED reply
    /\ UNCHANGED <<execVars, pvVars, smVars, rpVars, gsVars, boFolder, boFiles, creds,
                   called>>

\* batch_organize, lines 463-471: the children of the folder are listed; a list
\* call that raises is reported by the outer except (line 502)
BatchList ==
    /\ boPc = "list"
    /\ called' = TRUE
    /\ \E listFails \in {FALSE} \cup (IF failures < budget THEN {TRUE} ELSE {}) :
          LET files == Children(drive, boFolder) IN
          IF listFails
          THEN /\ boPc' = "error"
               /\ reply' = ErrorReply(500, "list")
               /\ failures' = failures + 1
               /\ UNCHANGED boFiles
          ELSE IF files = {}
          THEN /\ boPc' = "rejected"
               /\ reply' = ErrorReply(400, "No files found in folder")
               /\ UNCHANGED <<failures, boFiles>>
          ELSE /\ boPc' = "prompt"
               /\ boFiles' = files
               /\ UNCHANGED <<failures, reply>>
    /\ UNCHANGED <<drive, nextId, pc, sugs, results, touched, pending, log, deletes,
                   budget, pool, limit, pvVars, smVars, rpVars, gsVars, boFolder,
                   creds>>

\* batch_organize, lines 474-484: selected_files is built and
\* generate_file_rename_prompt is called with one argument; its parameter
\* `pattern` (line 134) has no default, so the call raises TypeError, which the
\* outer except reports (lines 500-502).  Lines 485-498 are never reached.
BatchPrompt ==
    /\ boPc = "prompt"
    /\ boPc' = "error"
    /\ reply' = ErrorReply(500, "TypeError")
    /\ UNCHANGED <<execVars, pvVars, smVars, rpVars, gsVars, boFolder, boFiles, creds,
                   called>>

\* a request to execute_rename arrives
ExecRequest ==
    /\ drive \in Worlds
    /\ nextId = 6
    /\ pc = "check"
    /\ sugs = <<>>
    /\ results = <<>>
    /\ touched = {}
    /\ pending = {}
    /\ log = <<>>
    /\ deletes = <<>>
    /\ pool = FaultyCandidates
    /\ limit \in 0 .. MaxBatch
    /\ PreviewIdle
    /\ RestIdle

\* a request to ai_rename_preview arrives
PreviewRequest ==
    /\ ExecIdle
    /\ RestIdle
    /\ limit = 1
    /\ pvPc = "check"
    /\ pvSelected \in SeqsOf(Selectable, 0, 1)
    /\ pvEnriched = <<>>
    /\ pvEcho = <<>>
    /\ pvOut = <<>>
    /\ pvEchoList = TRUE
    /\ pvFaults = <<>>
    /\ pvReply = [kind |-> "idle"]

\* a request to batch_organize arrives
BatchRequest ==
    /\ ExecIdle
    /\ limit = 0
    /\ PreviewIdle
    /\ SamplerIdle
    /\ ReportIdle
    /\ ClientIdle
    /\ boPc = "check"
    /\ boFolder \in {None, Root, 1, 2, 3}
    /\ boFiles = {}

\* a request arrives at one of the three handlers, with or without credentials
\* in the session
InitRequests ==
    /\ creds \in BOOLEAN
    /\ called = FALSE
    /\ reply = [code |-> 0]
    /\ failures = 0
    /\ budget = MaxFailures
    /\ ExecRequest \/ PreviewRequest \/ BatchRequest

NextBatch == BatchCheck \/ BatchList \/ BatchPrompt

NextRequests ==
    ExecCheck \/ PreviewCheck \/ NextBatch \/ Next \/ NextPreview

SpecRequests == InitRequests /\ [][NextRequests]_vars

----------------------------------------------------------------------------
(* report (routes/google_drive.py) *)

\* 'application/vnd.google-apps.folder' and 'application/pdf', written with one
\* letter per part
FolderType == <<"a", "/", "f">>
PdfType == <<"a", "/", "p">>

\* an entry of the listing, as file_info keeps it (lines 46-50)
Owned(id, parents) ==
    [id |-> id, name |-> <<"n">>,
     mimeType |-> IF id \in {1, 2} THEN FolderType ELSE PdfType,
     parents |-> parents]

\* the entries the user may own: folders 1 and 2, file 3; a parent may be one
\* of the folders or folder 8, which the listing never returns; the backend
\* keeps folders free of cycles
OwnedSets ==
    {S \in SUBSET ({Owned(1, ps) : ps \in SUBSET {2, 8}}
                   \cup {Owned(2, ps) : ps \in SUBSET {1, 8}}
                   \cup {Owned(3, ps) : ps \in SUBSET {1, 2, 8}}) :
        /\ \A e, f \in S : e.id = f.id => e = f
        /\ ~\E e, f \in S : e.id \in f.parents /\ f.id \in e.parents}

\* the listings of a set of entries: every order
Listings(S) ==
    {l \in [1 .. Cardinality(S) -> S] : \A i, j \in 1 .. Cardinality(S) : l[i] = l[j] => i = j}

\* lines 54-58: the label of an owned entry
Label(info) ==
    LET parts == Split(info.mimeType, "/") IN
    IF info.mimeType = FolderType THEN <<info.name, "folder">>
    ELSE <<info.name, parts[Len(parts)]>>

\* variant: no node is made for a parent that is not a node yet
NoPlaceholders(nodes, parents) == [pid \in {} |-> <<>>]

\* lines 61-63: the nodes made for the parents that are not in G yet
Placeholders(nodes, parents) ==
    [pid \in parents \ DOMAIN nodes |-> <<"Unknown Folder", pid>>]

\* variant: add_node leaves the label of a node that exists
AddNodeKeepLabel(nodes, fid, label) == nodes @@ (fid :> label)

\* line 59: G.add_node(fid, label=label) sets the label also of a node that
\* exists
AddNode(nodes, fid, label) == (fid :> label) @@ nodes

\* one iteration of "for fid, info in file_info.items()" (lines 53-64)
ReportAddNode ==
    /\ rpPc = "graph"
    /\ rpDone < Len(rpFiles)
    /\ LET info == rpFiles[rpDone + 1]
           nodes == AddNode(rpG.nodes, info.id, Label(info))
       IN rpG' = [nodes |-> Placeholders(nodes, info.parents) @@ nodes,
                  edges |-> rpG.edges \cup {<<pid, info.id>> : pid \in info.parents}]
    /\ rpDone' = rpDone + 1
    /\ UNCHANGED <<execVars, pvVars, boVars, smVars, gsVars, rpPc, rpFiles, rpTree, creds,
                   called, reply>>

\* lines 66-73: tree_data, one key per node of G with its label and successors
ReportRespond ==
    /\ rpPc = "graph"
    /\ rpDone = Len(rpFiles)
    /\ rpTree' = [node \in DOMAIN rpG.nodes |->
                     [label |-> rpG.nodes[node],
                      children |-> {c \in DOMAIN rpG.nodes : <<node, c>> \in rpG.edges}]]
    /\ rpPc' = "done"
    /\ reply' = [code |-> 200, body |-> rpTree']
    /\ UNCHANGED <<execVars, pvVars, boVars, smVars, gsVars, rpFiles, rpDone, rpG, creds,
                   called>>

\* report has listed the owned entries (lines 21-50) and starts building G
InitReport ==
    /\ ExecIdle
    /\ PreviewIdle
    /\ BatchIdle
    /\ SamplerIdle
    /\ ClientIdle
    /\ creds = TRUE
    /\ called = TRUE
    /\ reply = [code |-> 0]
    /\ failures = 0
    /\ budget = 0
    /\ limit = 0
    /\ rpPc = "graph"
    /\ \E S \in OwnedSets : rpFiles \in Listings(S)
    /\ rpDone = 0
    /\ rpG = [nodes |-> <<>>, edges |-> {}]
    /\ rpTree = <<>>

NextReport == ReportAddNode \/ ReportRespond

SpecReport == InitReport /\ [][NextReport]_vars

----------------------------------------------------------------------------
(* Properties of execute_rename *)

Items == 1 .. Len(log)
Deleted == 1 .. Len(deletes)

\* the non-trashed children of folder f in backend d
NonTrashedKids(d, f) == {i \in DOMAIN d : f \in d[i].parents /\ ~d[i].trashed}

\* the parents fetched in phase 1 for the targets of the suggestions
RecordedParents ==
    UNION {log[i].before[sugs[i].id].parents : i \in {j \in Items : log[j].got}}

\* the entries a delete call removed from the backend
Gone(k) == DOMAIN deletes[k].before \ DOMAIN deletes[k].after

\* C1: the cleanup pass calls delete only on a folder that has no non-trashed
\* children when cleanup examines it and that phase 1 recorded as a parent of
\* some suggestion's target; a successful delete removes that folder and,
\* besides it, only entries that were already trashed; no entry disappears
\* from the backend in any other way.
C1_CleanupDeletesOnlyEmptyTouched ==
    /\ \A k \in Deleted :
          /\ NonTrashedKids(deletes[k].before, deletes[k].id) = {}
          /\ deletes[k].id \in RecordedParents
          /\ deletes[k].ok =>
                /\ deletes[k].id \in Gone(k)
                /\ \A i \in Gone(k) \ {deletes[k].id} : deletes[k].before[i].trashed
          /\ ~deletes[k].ok => Gone(k) = {}
    /\ Len(log) >= 1 =>
          (DOMAIN log[1].before \ DOMAIN drive) \subseteq UNION {Gone(k) : k \in Deleted}

\* C1 witness: the request is answered, cleanup deleted an emptied folder and
\* left a touched folder that still had a child
C1_Witness ==
    /\ pc = "done"
    /\ \E k \in Deleted : deletes[k].ok
    /\ \E f \in touched \ {Root} : f \in DOMAIN drive /\ NonTrashedKids(drive, f) # {}

\* suggestion i left folder f without non-trashed children
EmptiedBy(i, f) ==
    /\ NonTrashedKids(log[i].before, f) # {}
    /\ NonTrashedKids(log[i].after, f) = {}

\* suggestion j moved its target into folder f, and the target is still a
\* non-trashed child of f when the apply loop ends
PopulatedBy(j, f) ==
    /\ log[j].update = "move"
    /\ log[j].folderId = f
    /\ sugs[j].id \in NonTrashedKids(log[j].after, f)
    /\ sugs[j].id \in NonTrashedKids(log[Len(log)].after, f)

\* every delete call of the invocation comes after the apply loop has ended
CleanupAfterApply ==
    /\ pc = "apply" => deletes = <<>>
    /\ \A k \in Deleted :
          deletes[k].at = "cleanup" /\ deletes[k].applied = Len(sugs)
    /\ Len(results) = Len(sugs)

C3_Original ==
    \A i \in Items : log[i].failed # {} => results[i].status = "error"

\* C3 (amended): a failing get or update gives suggestion i the status error
\* with the failure message; a failing lookup or create of the resolver alone
\* gives partial; a suggestion none of whose calls fails is applied (renamed
\* or moved) whatever happened to the suggestions before it.
C3_FailureIsolation ==
    /\ Len(results) = Len(log)
    /\ \A i \in Items :
          /\ "KeyError" \in log[i].failed =>
                results[i].status = "error" /\ results[i].message = "Error: 'id'"
          /\ "get" \in log[i].failed =>
                results[i].status = "error" /\ results[i].message = "Error: get"
          /\ "update" \in log[i].failed =>
                results[i].status = "error" /\ results[i].message = "Error: update"
          /\ (log[i].failed # {} /\ log[i].failed \subseteq {"list", "create"}) =>
                results[i].status = "partial" /\ log[i].update = "rename"
          /\ results[i].status = "error" => log[i].failed # {}
          /\ log[i].failed = {} =>
                /\ log[i].update # "none"
                /\ log[i].after[sugs[i].id].name = sugs[i].newName

\* C3 witness: the update of one suggestion raised and the next suggestion
\* was moved
C3_Witness ==
    \E i, j \in Items :
        /\ i < j
        /\ "update" \in log[i].failed
        /\ results[i].status = "error"
        /\ log[j].update = "move"
        /\ results[j].status = "success"

\* C4: results holds one result per suggestion, the k-th for the k-th
\* suggestion (its id, or 'unknown' when the suggestion has none).
C4_OneResultPerSuggestion ==
    /\ Len(results) = Len(sugs)
    /\ \A k \in 1 .. Len(sugs) :
          /\ k \in DOMAIN results
          /\ results[k].id = (IF sugs[k].id = NoId THEN Unknown ELSE sugs[k].id)
          /\ results[k].status \in {"success", "partial", "error"}

\* C4 witness: a batch answered with an error for its first suggestion and a
\* success for its second
C4_Witness ==
    /\ pc = "done"
    /\ Len(sugs) = 2
    /\ results[1].status = "error"
    /\ results[2].status = "success"
    /\ results[1].id # results[2].id

----------------------------------------------------------------------------
(* Properties of the folder path resolver as execute_rename uses it *)

\* the folders the resolver created for suggestion i
NewFolders(i) == DOMAIN log[i].mid \ DOMAIN log[i].before

\* suggestion i resolved its newFolder path to a folder
Resolved(i) == log[i].tried /\ log[i].folderId # None

\* C5 (as stated): two suggestions of one batch with the same newFolder path
\* resolve to the same folder identifier, and the batch creates no two folders
\* with the same name under the same parent.
C5_Original ==
    /\ \A i, j \in Items :
          (Resolved(i) /\ Resolved(j) /\ sugs[i].newFolder = sugs[j].newFolder)
             => log[i].folderId = log[j].folderId
    /\ \A i, j \in Items : \A x \in NewFolders(i), y \in NewFolders(j) :
          (log[i].mid[x].name = log[j].mid[y].name
             /\ log[i].mid[x].parents = log[j].mid[y].parents) => x = y

\* C6 (as stated): no move makes a folder its own parent.
C6_Original ==
    \A i \in Items :
        (log[i].update = "move" /\ log[i].before[sugs[i].id].folder)
           => /\ log[i].folderId # sugs[i].id
              /\ sugs[i].id \notin log[i].after[sugs[i].id].parents

\* C7 (as stated): after the update of a suggestion whose path resolved to
\* folder D the entry is named newName, its parents are exactly {D} and the
\* status is success, for every previous parent set.
C7_Original ==
    \A i \in Items :
        log[i].update = "move"
           => /\ log[i].after[sugs[i].id].name = sugs[i].newName
              /\ log[i].after[sugs[i].id].parents = {log[i].folderId}
              /\ results[i].status = "success"

\* C8 (as stated): when a lookup or a create of the resolver raises for a
\* suggestion with newFolder, the entry is renamed to newName with its parents
\* unchanged and the status is partial, never error.
C8_Original ==
    \A i \in Items :
        (log[i].got /\ log[i].failed \cap {"list", "create"} # {})
           => /\ log[i].after[sugs[i].id].name = sugs[i].newName
              /\ log[i].after[sugs[i].id].parents = log[i].before[sugs[i].id].parents
              /\ results[i].status = "partial"

\* C8 (amended): when a lookup or a create of the resolver raises for a
\* suggestion with newFolder, the resolver gives None and the rename-only
\* update is called; if it goes through, the entry is renamed to newName, its
\* parents are the ones it had, and the status is partial; if it raises too,
\* the entry is as it was and the status is error.
C8_ResolutionFailureIsPartial ==
    \A i \in Items :
        (log[i].got /\ log[i].failed \cap {"list", "create"} # {})
           => /\ log[i].tried
              /\ log[i].folderId = None
              /\ log[i].after[sugs[i].id].parents = log[i].before[sugs[i].id].parents
              /\ IF "update" \in log[i].failed
                 THEN /\ results[i].status = "error"
                      /\ log[i].after[sugs[i].id] = log[i].before[sugs[i].id]
                 ELSE /\ results[i].status = "partial"
                      /\ log[i].after[sugs[i].id].name = sugs[i].newName

\* C8 witness: the create of the second segment raised after the first was
\* found; the entry kept its parents, took the new name, and is partial
C8_Witness ==
    \E i \in Items :
        /\ log[i].failed = {"create"}
        /\ results[i].status = "partial"
        /\ log[i].before[sugs[i].id].name # sugs[i].newName
        /\ log[i].after[sugs[i].id].name = sugs[i].newName
        /\ log[i].before[sugs[i].id].parents # {}

\* the segments of suggestion i's path that are not empty after strip()
Segs(i) == NonEmpty(Split(sugs[i].newFolder, "/"))

\* how many leading segments already exist in backend d as a chain of
\* non-trashed folders (the first anywhere, each next one a child of the one
\* before), and whether each of them is matched by exactly one folder
RECURSIVE Chain(_, _, _)
Chain(d, segs, parent) ==
    IF segs = <<>> THEN [k |-> 0, unique |-> TRUE]
    ELSE LET m == {i \in DOMAIN d : d[i].folder /\ ~d[i].trashed
                                    /\ d[i].name = Head(segs)
                                    /\ (parent # None => parent \in d[i].parents)}
         IN IF m = {} THEN [k |-> 0, unique |-> TRUE]
            ELSE LET r == Chain(d, Tail(segs), CHOOSE i \in m : TRUE)
                 IN [k |-> 1 + r.k, unique |-> r.unique /\ Cardinality(m) = 1]

\* c is the chain of folders of backend d for the segments segs, ending in
\* folder last; the folders of positions > k are the set new, each the only
\* child relation being with the folder before it (the root for the first)
IsChain(d, c, segs, k, new, last) ==
    /\ c[Len(segs)] = last
    /\ \A j \in 1 .. Len(segs) :
          /\ d[c[j]].folder /\ ~d[c[j]].trashed
          /\ d[c[j]].name = segs[j]
          /\ j > 1 => c[j - 1] \in d[c[j]].parents
          /\ j <= k => c[j] \notin new
          /\ j > k => /\ c[j] \in new
                      /\ d[c[j]].parents = {IF j = 1 THEN Root ELSE c[j - 1]}
    /\ {c[j] : j \in (k + 1) .. Len(segs)} = new

\* C9: when no call raises and the first k of the n >= 1 non-empty segments
\* exist as a chain (each matched by one folder) and the rest do not, exactly
\* n - k folders are created, each the child of the folder of the segment
\* before it, every entry that existed is left as it was, and the status is
\* success.
C9_CreatesOnlyMissingSegments ==
    \A i \in Items :
        LET segs == Segs(i)
            ch == Chain(log[i].before, segs, None)
            new == NewFolders(i)
        IN (log[i].tried /\ log[i].failed = {} /\ segs # <<>> /\ ch.unique)
           => /\ Cardinality(new) = Len(segs) - ch.k
              /\ \A x \in DOMAIN log[i].before : log[i].mid[x] = log[i].before[x]
              /\ \E c \in [1 .. Len(segs) -> DOMAIN log[i].mid] :
                    IsChain(log[i].mid, c, segs, ch.k, new, log[i].folderId)
              /\ results[i].status = "success"

\* C9 witness: a path of two segments whose first exists and whose second
\* does not was resolved with one folder created
C9_Witness ==
    \E i \in Items :
        /\ log[i].tried /\ log[i].failed = {}
        /\ Len(Segs(i)) = 2
        /\ Chain(log[i].before, Segs(i), None).k = 1
        /\ Cardinality(NewFolders(i)) = 1
        /\ results[i].status = "success"

----------------------------------------------------------------------------
(* Properties of ai_rename_preview *)

\* the smaller of two numbers
Least(a, b) == IF a < b THEN a ELSE b

\* C10: with N selected entries and M decoded suggestions, the returned list
\* has M suggestions; the i-th carries the i-th selected entry's id for
\* i <= min(N, M), whatever id was echoed, and is the decoded suggestion
\* unchanged for i > N; nothing but the id is touched.
C10_PositionalRebinding ==
    pvPc = "done" =>
        /\ Len(pvOut) = Len(pvEcho)
        /\ \A i \in 1 .. Least(Len(pvSelected), Len(pvEcho)) :
              /\ pvOut[i].id = pvSelected[i].id
              /\ pvOut[i].newName = pvEcho[i].newName
        /\ \A i \in (Len(pvSelected) + 1) .. Len(pvEcho) : pvOut[i] = pvEcho[i]

\* C10 witness: more suggestions than selected entries, every echoed id
\* differs from the selected one, and the last suggestion is past the selection
C10_Witness ==
    /\ pvPc = "done"
    /\ Len(pvSelected) = 2
    /\ Len(pvEcho) = 3
    /\ \A i \in 1 .. 2 : pvEcho[i].id # pvSelected[i].id /\ pvOut[i].id = pvSelected[i].id
    /\ pvOut[3].id = pvEcho[3].id

\* folder id of backend d is reached from the root by the folders named
\* segs[1], ..., segs[k], each a direct child of the one before
RECURSIVE UnderRoot(_, _, _, _)
UnderRoot(d, id, segs, k) ==
    /\ id \in DOMAIN d
    /\ d[id].folder
    /\ d[id].name = segs[k]
    /\ IF k = 1 THEN Root \in d[id].parents
       ELSE \E p \in d[id].parents : UnderRoot(d, p, segs, k - 1)

\* C19 as stated: the folder a path resolves to is reached from the backend's
\* root by the segments of the path, each folder a direct child of the one
\* before and the first a direct child of the root; a folder of the first
\* segment's name that lies elsewhere is not used.
C19_Original ==
    \A i \in Items :
        Resolved(i) =>
            UnderRoot(log[i].mid, log[i].folderId, Segs(i), Len(Segs(i)))

----------------------------------------------------------------------------
(* The reply of execute_rename *)

\* the result positions with status st
WithStatus(st) == {i \in 1 .. Len(results) : results[i].status = st}

\* the touched folder a cleanup iteration examined failed to list or delete
CleanupRaised == pc = "cleanup" /\ failures' > failures

\* C12: a list or delete call that raises during cleanup is skipped.  The
\* iteration that raised leaves the handler in the cleanup loop with only the
\* folder it examined taken off the folders still to visit; no cleanup
\* iteration changes the results list or the batch; and the reply is sent
\* only when no touched folder is left to examine and carries success = true
\* with exactly the results and the counts of the apply loop: the reply is
\* that of the same batch without a cleanup failure.
C12_CleanupFailureSkipped ==
    /\ [][CleanupRaised =>
             /\ pc' = "cleanup"
             /\ reply' = [code |-> 0]
             /\ \E f \in pending : pending' = pending \ {f}]_vars
    /\ [][pc = "cleanup" => results' = results /\ sugs' = sugs]_vars
    /\ [](pc = "done" =>
             /\ pending = {}
             /\ reply = [code |-> 200, success |-> TRUE, results |-> results,
                         total |-> Len(sugs),
                         successful |-> Cardinality(WithStatus("success")),
                         failed |-> Cardinality(WithStatus("error"))])

\* C12 witness: a call raised while cleaning up one of two touched folders
\* (no call raised in the apply loop), the other folder was deleted after it,
\* and the reply has been sent
C12_Witness ==
    /\ pc = "done"
    /\ failures >= 1
    /\ \A i \in Items : log[i].failed = {}
    /\ Cardinality(touched) >= 2
    /\ \E k \in Deleted : deletes[k].ok /\ deletes[k].id \in touched
    /\ reply.success

\* C13: the reply's total is the number of suggestions of the batch, successful
\* the number of results with status success, failed the number with status
\* error; so successful + failed = total - (number of partial results).
C13_TotalsTally ==
    pc = "done" =>
        /\ reply.total = Len(sugs)
        /\ reply.successful = Cardinality(WithStatus("success"))
        /\ reply.failed = Cardinality(WithStatus("error"))
        /\ reply.successful + reply.failed
              = reply.total - Cardinality(WithStatus("partial"))

\* C13 witness: a batch with a partial result and an error result, so neither
\* count reaches the total
C13_Witness ==
    /\ pc = "done"
    /\ WithStatus("partial") # {}
    /\ WithStatus("error") # {}
    /\ reply.successful + reply.failed < reply.total

----------------------------------------------------------------------------
(* The entry checks *)

\* the handler that received the request has left its entry checks
Checked ==
    \/ pc \notin {"idle", "check"}
    \/ pvPc \notin {"idle", "check"}
    \/ boPc \notin {"idle", "check"}

\* the request carries no (or an empty) suggestion list, selection or folderId
EmptyPayload ==
    \/ pc # "idle" /\ limit = 0
    \/ pvPc # "idle" /\ pvSelected = <<>>
    \/ boPc # "idle" /\ boFolder = None

\* C11: a request without credentials in the session, or whose suggestion
\* list, selection or folderId is missing or empty, never issues a backend or
\* completion-service call, and once past the entry checks its reply is the
\* error: 401 "Not authorized" without credentials, otherwise 400 with the
\* handler's validation message.  As long as no call has been issued the
\* backend is unchanged.
C11_RejectedBeforeAnyCall ==
    /\ []((~creds \/ EmptyPayload) =>
             /\ ~called
             /\ Checked =>
                  \/ ~creds /\ reply = [code |-> 401, error |-> "Not authorized"]
                  \/ /\ creds
                     /\ reply.code = 400
                     /\ reply.error \in {"No suggestions provided",
                                         "No files selected",
                                         "No folder ID provided"})
    /\ [][~called' => drive' = drive]_vars

\* C11 witness: execute_rename has answered a request that has credentials but
\* an empty suggestion list, against a backend that holds entries
C11_Witness ==
    /\ creds
    /\ pc = "rejected"
    /\ reply = [code |-> 400, error |-> "No suggestions provided"]
    /\ DOMAIN drive # {}

\* C17 as stated: when batch_organize has credentials and a folderId whose
\* listing returned N >= 1 children, it answers (the completion service being
\* ready to return M >= 1 suggestions) with an ordinary reply that carries
\* the suggestions and total_files = N, not with an error.
C17_Original ==
    (boPc \notin {"idle", "check", "list", "prompt"} /\ boFiles # {}) =>
        /\ reply.code = 200
        /\ reply.total_files = Cardinality(boFiles)
        /\ Len(reply.suggestions) >= 1

----------------------------------------------------------------------------
(* Properties of extract_file_content *)

\* the number of whitespace-delimited words of a text
WordCount(text) ==
    Cardinality({i \in 1 .. Len(text) :
                    /\ text[i] \notin {" ", "\n"}
                    /\ i = 1 \/ text[i - 1] \in {" ", "\n"}})

\* the first n words of a file, one blank between two words
WordsText(n) ==
    [i \in 1 .. (3 * n - 1) |->
        IF i % 3 = 0 THEN " " ELSE WordOf(1 + ((i - 1) \div 3))[i % 3]]

\* the number of words of a file
RECURSIVE Total(_)
Total(counts) == IF counts = <<>> THEN 0 ELSE Head(counts) + Total(Tail(counts))

\* the sampler was given a file of a supported format below the size threshold
\* and nothing raised
SampledCleanly ==
    /\ smIn.fault = "none"
    /\ smIn.mime_type \in {Pdf, Docx}
    /\ smIn.file.size <= 10000000

\* C15: what the sampler returns holds at most 200 words; for a file of a
\* supported format it is the first 200 words of the file when the file holds
\* at least 200 (all of its words otherwise), one blank apart; it is the empty
\* string for every other format tag; and when the reported size exceeds
\* 10,000,000 it is the empty string and the bytes were not requested.
C15_SamplerBounds ==
    smPc = "returned" =>
        /\ WordCount(smOut.content) <= 200
        /\ SampledCleanly =>
              smOut.content = WordsText(Least(200, Total(smIn.counts)))
        /\ smIn.mime_type \notin {Pdf, Docx} => smOut.content = <<>>
        /\ smIn.file.size > 10000000 => smOut.content = <<>> /\ ~smOut.fetched

\* C15 witness: a file of more than 200 words over several pages was sampled
\* and exactly 200 words came back
C15_Witness ==
    /\ smPc = "returned"
    /\ SampledCleanly
    /\ Len(smIn.counts) > 1
    /\ Total(smIn.counts) > 200
    /\ WordCount(smOut.content) = 200

\* C20 as stated: whenever the sampler staged the content in a temporary file,
\* no staged file is left when it has returned.
C20_Original ==
    (smPc = "returned" /\ smOut.staged) => smOut.temp = {}

----------------------------------------------------------------------------
(* Properties of ai_rename_preview and get_ai_suggestions *)

\* C14 as stated: once the loop over the selected entries has run, whatever
\* raised for one entry, the handler has not ended with an error and
\* enriched_files has one entry per selected entry, in order, with the
\* entry's id and type; the content is empty for a folder and for a file for
\* which a call raised, and is the file's sample for every other file.
C14_Original ==
    pvFaults # <<>> =>
        /\ reply.code # 500 \/ pvEnriched # <<>>
        /\ Len(pvEnriched) = Len(pvSelected)
        /\ \A i \in 1 .. Len(pvSelected) :
              /\ pvEnriched[i].id = pvSelected[i].id
              /\ pvEnriched[i].type = pvSelected[i].type
              /\ pvSelected[i].type = "folder" => pvEnriched[i].content = <<>>
              /\ pvFaults[i] # "none" => pvEnriched[i].content = <<>>
              /\ (pvFaults[i] = "none" /\ pvSelected[i] = [id |-> 3, type |-> "file"])
                    => pvEnriched[i].content = WordsText(2)

\* the completion service failed: the call raised, the reply has no text, or
\* the text is no valid JSON
ServiceFailed ==
    \/ pvReply.kind \in {"raise", "none"}
    \/ pvReply.kind = "text" /\ pvReply.json = "invalid"

\* C16: whatever the completion service does, get_ai_suggestions returns: the
\* empty list when the call raised, the reply has no text or the text is not
\* valid JSON, and the decoded value otherwise (the list of the objects of the
\* text, or the value that is no list).  ai_rename_preview goes on with an
\* empty list and answers it with an ordinary reply whose body is the empty
\* list.
C16_ClientNeverRaises ==
    pvReply.kind # "idle" =>
        /\ ServiceFailed => pvEchoList /\ pvEcho = <<>>
        /\ (pvReply.kind = "text" /\ pvReply.json = "list") =>
              /\ pvEchoList
              /\ pvEcho = [i \in 1 .. Len(pvReply.letters) |->
                              ObjectOf(pvReply.letters[i])]
        /\ (pvReply.kind = "text" /\ pvReply.json = "scalar") => ~pvEchoList
        /\ (pvEchoList /\ pvEcho = <<>>) =>
              /\ pvPc \in {"suggested", "done"}
              /\ pvPc = "done" => reply = [code |-> 200, body |-> <<>>]

\* C16 witness: the reply text was fenced but held no valid JSON, and the
\* handler has answered with the empty list
C16_Witness ==
    /\ pvPc = "done"
    /\ pvReply.kind = "text"
    /\ pvReply.json = "invalid"
    /\ Len(pvReply.text) > 3
    /\ SubSeq(pvReply.text, 1, 3) = <<Tick, Tick, Tick>>
    /\ reply = [code |-> 200, body |-> <<>>]

----------------------------------------------------------------------------
(* Properties of report *)

\* the positions of the listing
Listed == 1 .. Len(rpFiles)

\* C18: in the mapping report returns, every id in a children list is a key,
\* every owned entry and every parent an owned entry declares is a key, and an
\* owned entry that declares no parent is in no children list.
C18_NoDanglingEdge ==
    rpPc = "done" =>
        /\ \A node \in DOMAIN rpTree : rpTree[node].children \subseteq DOMAIN rpTree
        /\ \A i \in Listed :
              /\ rpFiles[i].id \in DOMAIN rpTree
              /\ rpFiles[i].parents \subseteq DOMAIN rpTree
              /\ rpFiles[i].parents = {} =>
                    \A node \in DOMAIN rpTree : rpFiles[i].id \notin rpTree[node].children

\* C18 witness: an entry was listed before the owned folder it declares as
\* parent, another declares the folder that is never listed, a third declares
\* no parent, and the report is built
C18_Witness ==
    /\ rpPc = "done"
    /\ \E i, j \in Listed : i < j /\ rpFiles[j].id \in rpFiles[i].parents
    /\ \E i \in Listed : 8 \in rpFiles[i].parents
    /\ \E i \in Listed : rpFiles[i].parents = {}
    /\ 8 \in DOMAIN rpTree

\* the ids some listed entry declares as parent
Referenced == UNION {rpFiles[i].parents : i \in Listed}

\* the ids of the listed entries
OwnedIds == {rpFiles[i].id : i \in Listed}

\* the label "<name> (folder)" or "<name> (<subtype>)" of a listed entry: the
\* subtype is what follows the last "/" of its type
OwnLabel(f) ==
    IF f.mimeType = <<"a", "/", "f">> THEN <<f.name, "folder">>
    ELSE <<f.name, f.mimeType[Len(f.mimeType)]>>

\* C21: in the mapping report returns, a node carries the label
\* "Unknown Folder (<id>)" exactly when its id is declared as parent by an
\* owned entry and is not the id of an owned entry; an owned entry carries its
\* own "<name> (folder)" or "<name> (<subtype>)" label, whether it is listed
\* before or after the entries that declare it as parent.
C21_PlaceholderIffNotOwned ==
    rpPc = "done" =>
        /\ \A node \in DOMAIN rpTree :
              (rpTree[node].label = <<"Unknown Folder", node>>)
                  <=> (node \in Referenced \ OwnedIds)
        /\ \A i \in Listed : rpTree[rpFiles[i].id].label = OwnLabel(rpFiles[i])

\* C21 witness: a folder is listed after an entry that declares it as parent,
\* another folder is listed before such an entry, the folder that is never
\* listed is declared as parent, and the report is built
C21_Witness ==
    /\ rpPc = "done"
    /\ \E i, j \in Listed : i < j /\ rpFiles[j].id \in rpFiles[i].parents
    /\ \E i, j \in Listed : i < j /\ rpFiles[i].id \in rpFiles[j].parents
    /\ 8 \in Referenced
    /\ rpTree[8].label = <<"Unknown Folder", 8>>

----------------------------------------------------------------------------
(* Properties of get_ai_suggestions on fenced replies *)

\* get_ai_suggestions returned the same list for the block as for the text
SameList ==
    /\ gsOut.fenced.list
    /\ gsOut.bare.list
    /\ gsOut.fenced.items = gsOut.bare.items

\* C22 (as stated): a JSON array text wrapped in a fenced code block, with any
\* language tag or none on the opening fence and with a closing fence, is
\* decoded to the same list as the bare text; and only fence markers that are
\* present are cut off, so that a block without closing fence is decoded to
\* that list too.
C22_Original ==
    gsPc = "returned" =>
        /\ gsIn.closing => SameList
        /\ (~gsIn.closing /\ gsIn.tag \in {<<>>, <<"j", "s", "o", "n">>}) => SameList

\* the part of C22 the code meets: with the tag json or with no tag, and with a
\* closing fence, the block is decoded to the same list as the bare text
FencedJsonOrPlain ==
    (gsPc = "returned" /\ gsIn.closing /\ gsIn.tag \in {<<>>, <<"j", "s", "o", "n">>})
        => SameList

\* a block with a tag and a closing fence around a list that is not empty was
\* decoded
FencedJsonOrPlainReached ==
    /\ gsPc = "returned"
    /\ gsIn.closing
    /\ gsIn.tag = <<"j", "s", "o", "n">>
    /\ Len(gsOut.bare.items) = 2

----------------------------------------------------------------------------
(* The visiting order of the cleanup loop *)

\* the backend as the apply loop left it
AfterApply == log[Len(log)].after

\* the invocation is answered, no call raised, and the backend it leaves is
\* the one the cleanup loop leaves for some order of touched_folders
CleanupRunAgrees ==
    (pc = "done" /\ failures = 0) =>
        \E order \in Orders(touched) : CleanupRun(AfterApply, order) = drive

\* C23 (as stated): with the backend as the apply loop left it and the same
\* touched folders, the cleanup loop deletes the same folders and leaves the
\* same backend whatever the order in which it visits the touched folders:
\* the backend this invocation leaves is the one every other order leaves.
C23_Original ==
    (pc = "done" /\ failures = 0) =>
        \A order \in Orders(touched) :
            /\ CleanupRun(AfterApply, order) = drive
            /\ DOMAIN AfterApply \ DOMAIN CleanupRun(AfterApply, order)
                  = DOMAIN AfterApply \ DOMAIN drive

====
